---- MODULE Spec2Model ----
(***************************************************************************)
(* The aws_dynamodb_table_query data source: one invocation of            *)
(* dataSourceTableQueryRead against a remote DynamoDB table.               *)
(*                                                                         *)
(* The repository holds two drafts of the read handler:                    *)
(*   "part_000" : src/unnamed/part_000                                     *)
(*   "go"       : src/internal/service/dynamodb/table_query_data_source.go *)
(* Both are modelled; `variant` says which one an invocation runs.         *)
(*                                                                         *)
(* A Go string is a sequence of chunks (TLA+ strings): the text            *)
(* {"S": "something"} is << "{", Q, "S", Q, ":", Q, "something", Q, "}" >> *)
(* and the plain string something is << "something" >>, so that parsing    *)
(* and wrapping a text are different operations with different results.    *)
(***************************************************************************)
EXTENDS Integers, Sequences, FiniteSets, TLC

(***************************************************************************)
(* Bounds of the model.                                                    *)
(***************************************************************************)
\* records in the queried partition: 0..MaxItems
MaxItems == 3
\* largest page-size hint (limit) a caller configures
MaxLimit == 2
\* largest output cap a caller asks for
MaxCap == 2
\* most records the store scans for one page when no Limit is sent
StorePageMax == 3
\* deepest nesting of L and M inside a document given to the codec
MaxDepth == 1
\* latest invocation time, in nanoseconds, an identifier is built at
MaxNow == 3

(***************************************************************************)
(* Texts.                                                                  *)
(***************************************************************************)
Q == "\""

Str(c) == << c >>

Quoted(c) == << Q, c, Q >>

\* the JSON text {"<tag>": "<c>"}
TypedText(tag, c) == << "{" >> \o Quoted(tag) \o << ":" >> \o Quoted(c) \o << "}" >>

\* the JSON text {"<name>": {"<tag>": "<c>"}}
ItemText(name, tag, c) ==
    << "{" >> \o Quoted(name) \o << ":" >> \o TypedText(tag, c) \o << "}" >>

Digits == << "1", "2", "3", "4", "5", "6", "7", "8", "9" >>

\* fmt.Sprintf("%d", n) for the small positive numbers of the model
Itoa(n) == IF n = 0 THEN "0" ELSE Digits[n]

(***************************************************************************)
(* encoding/json, reading: a text is parsed into a JSON value              *)
(*   [t |-> "str", v |-> <chunks>]  or  [t |-> "obj", v |-> <key :> value>] *)
(*   [t |-> "bool", v |-> TRUE/FALSE] or [t |-> "arr", v |-> <values>]     *)
(* and any other text is a syntax error.                                   *)
(***************************************************************************)
ParseFail == [ok |-> FALSE, val |-> [t |-> "none"], next |-> 0]

\* the index of the first Q of text t at or after i, 0 when there is none
RECURSIVE NextQuote(_, _)
NextQuote(t, i) ==
    IF i > Len(t) THEN 0
    ELSE IF t[i] = Q THEN i
    ELSE NextQuote(t, i + 1)

\* a string literal starting at t[i] = Q
ParseString(t, i) ==
    IF i > Len(t) \/ t[i] # Q THEN ParseFail
    ELSE LET j == NextQuote(t, i + 1)
         IN  IF j = 0 THEN ParseFail
             ELSE [ok |-> TRUE,
                   val |-> [t |-> "str", v |-> SubSeq(t, i + 1, j - 1)],
                   next |-> j + 1]

RECURSIVE ParseValue(_, _)
RECURSIVE ParseMembers(_, _, _)
RECURSIVE ParseElements(_, _, _)
\* the elements of an array from t[i] on: value { , value } ]
ParseElements(t, i, acc) ==
    LET v == ParseValue(t, i)
    IN  IF ~v.ok \/ v.next > Len(t) THEN ParseFail
        ELSE IF t[v.next] = "]"
             THEN [ok |-> TRUE,
                   val |-> [t |-> "arr", v |-> Append(acc, v.val)],
                   next |-> v.next + 1]
        ELSE IF t[v.next] = ","
             THEN ParseElements(t, v.next + 1, Append(acc, v.val))
        ELSE ParseFail

\* the members of an object from t[i] on: "key" : value { , "key" : value } }
ParseMembers(t, i, acc) ==
    LET k == ParseString(t, i)
    IN  IF ~k.ok \/ Len(k.val.v) # 1 THEN ParseFail
        ELSE IF k.next > Len(t) \/ t[k.next] # ":" THEN ParseFail
        ELSE LET v == ParseValue(t, k.next + 1)
                 m == (k.val.v[1] :> v.val) @@ acc
             IN  IF ~v.ok \/ v.next > Len(t) THEN ParseFail
                 ELSE IF t[v.next] = "}"
                      THEN [ok |-> TRUE, val |-> [t |-> "obj", v |-> m],
                            next |-> v.next + 1]
                 ELSE IF t[v.next] = ","
                      THEN ParseMembers(t, v.next + 1, m)
                 ELSE ParseFail

ParseValue(t, i) ==
    IF i > Len(t) THEN ParseFail
    ELSE IF t[i] = Q THEN ParseString(t, i)
    ELSE IF t[i] = "{"
         THEN IF i + 1 <= Len(t) /\ t[i + 1] = "}"
              THEN [ok |-> TRUE, val |-> [t |-> "obj", v |-> << >>],
                    next |-> i + 2]
              ELSE ParseMembers(t, i + 1, << >>)
    ELSE IF t[i] = "["
         THEN IF i + 1 <= Len(t) /\ t[i + 1] = "]"
              THEN [ok |-> TRUE, val |-> [t |-> "arr", v |-> << >>],
                    next |-> i + 2]
              ELSE ParseElements(t, i + 1, << >>)
    ELSE IF t[i] \in {"true", "false"}
         THEN [ok |-> TRUE, val |-> [t |-> "bool", v |-> (t[i] = "true")],
               next |-> i + 1]
    ELSE ParseFail

\* json.Decoder.Decode of a whole text: a value, or an error (also on "")
JSONDecode(t) ==
    LET r == ParseValue(t, 1)
    IN  IF r.ok /\ r.next = Len(t) + 1 THEN r ELSE ParseFail

(***************************************************************************)
(* dynamodb.AttributeValue and the two library conversions the handler     *)
(* calls on caller-supplied texts.                                         *)
(***************************************************************************)
\* the string-typed fields of dynamodb.AttributeValue the model carries
StringTags == {"S", "N"}

\* json.Unmarshal of one JSON value into *dynamodb.AttributeValue
AttributeValueOf(j) ==
    IF j.t # "obj" THEN [err |-> TRUE, val |-> << >>]
    ELSE LET fs == DOMAIN j.v \cap StringTags
         IN  IF \E f \in fs : j.v[f].t # "str"
             THEN [err |-> TRUE, val |-> << >>]
             ELSE [err |-> FALSE, val |-> [f \in fs |-> j.v[f].v]]

\* ExpandTableItemAttributes: the JSON text of an item decoded into
\* map[string]*dynamodb.AttributeValue; (nil, err) when the text is not
\* a JSON object of attribute values (the empty text included)
ExpandTableItemAttributes(input) ==
    LET r == JSONDecode(input)
    IN  IF ~r.ok \/ r.val.t # "obj"
        THEN [err |-> TRUE, val |-> << >>]
        ELSE IF \E k \in DOMAIN r.val.v : AttributeValueOf(r.val.v[k]).err
        THEN [err |-> TRUE, val |-> << >>]
        ELSE [err |-> FALSE,
              val |-> [k \in DOMAIN r.val.v |-> AttributeValueOf(r.val.v[k]).val]]

\* dynamodbattribute.MarshalMap of a map of Go strings: every string
\* becomes a string-typed attribute holding that very string
MarshalMap(v) == [k \in DOMAIN v |-> [S |-> v[k]]]

\* the draft in table_query_data_source.go wraps each value the same way
WrapAsS(v) == [k \in DOMAIN v |-> [S |-> v[k]]]

(***************************************************************************)
(* The attribute value codec: ConvertJSONToAttributeValue (decode) and     *)
(* ConvertToDynamoAttributeValue (toWireFormat).                           *)
(*                                                                         *)
(* An AttributeValue is a function from its populated fields to their Go   *)
(* values: S, N a string; B the bytes; BOOL, NULL a boolean; SS, NS a list *)
(* of strings; BS a list of bytes; L a list of AttributeValues; M a map    *)
(* from key to AttributeValue.  Nil is the nil pointer.                    *)
(***************************************************************************)
Tags == {"B", "BOOL", "BS", "L", "M", "N", "NS", "NULL", "S", "SS"}

\* the fields in the order the struct declares them
TagOrder == << "B", "BOOL", "BS", "L", "M", "N", "NS", "NULL", "S", "SS" >>

Nil == [nil |-> TRUE]

Backslash == "\\"

\* the outer string literal is unescaped once: \" is ", \\ is \, and a
\* backslash before anything else, or at the end, is an error
Unescape(t) ==
    LET \* the last chunk before position i that is no backslash, 0 for none
        lastOther(i) ==
            CHOOSE j \in 0..(i - 1) :
                /\ j > 0 => t[j] # Backslash
                /\ \A k \in (j + 1)..(i - 1) : t[k] = Backslash
        \* the backslash at i opens an escape: an even run of them precedes it
        opens(i) == t[i] = Backslash /\ (i - 1 - lastOther(i)) % 2 = 0
        kept == SelectSeq([i \in 1..Len(t) |-> i], LAMBDA i : ~opens(i))
    IN  IF \E i \in 1..Len(t) :
               opens(i) /\ (i = Len(t) \/ t[i + 1] \notin {Q, Backslash})
        THEN [ok |-> FALSE, text |-> << >>]
        ELSE [ok |-> TRUE, text |-> [k \in 1..Len(kept) |-> t[kept[k]]]]

\* encoding/base64 on the byte strings of the tests: encoded -> bytes
Base64 == ("YmFzZTY0" :> "base64") @@ ("ZW5jb2Rpbmc=" :> "encoding")

\* the bytes a JSON string stands for, or an error
Base64Decode(s) ==
    IF Len(s) = 0 THEN [err |-> FALSE, val |-> << >>]
    ELSE IF Len(s) = 1 /\ s[1] \in DOMAIN Base64
         THEN [err |-> FALSE, val |-> << Base64[s[1]] >>]
    ELSE [err |-> TRUE, val |-> << >>]

\* the JSON string some bytes are written as
Base64Encode(b) ==
    IF Len(b) = 0 THEN << >>
    ELSE << CHOOSE e \in DOMAIN Base64 : Base64[e] = b[1] >>

Bad == [err |-> TRUE, val |-> << >>]

Good(v) == [err |-> FALSE, val |-> v]

\* json.Unmarshal of a JSON value into *AttributeValue: the known keys of
\* the object fill the fields of the same name, other keys are ignored,
\* and a value of the wrong JSON type is an error
RECURSIVE UnmarshalAttributeValue(_)
RECURSIVE UnmarshalField(_, _)
UnmarshalField(f, j) ==
    CASE f \in {"S", "N"} ->
           IF j.t = "str" THEN Good(j.v) ELSE Bad
      [] f \in {"BOOL", "NULL"} ->
           IF j.t = "bool" THEN Good(j.v) ELSE Bad
      [] f = "B" ->
           IF j.t = "str" THEN Base64Decode(j.v) ELSE Bad
      [] f \in {"SS", "NS"} ->
           IF j.t = "arr" /\ \A i \in 1..Len(j.v) : j.v[i].t = "str"
           THEN Good([i \in 1..Len(j.v) |-> j.v[i].v])
           ELSE Bad
      [] f = "BS" ->
           IF /\ j.t = "arr"
              /\ \A i \in 1..Len(j.v) :
                     j.v[i].t = "str" /\ ~Base64Decode(j.v[i].v).err
           THEN Good([i \in 1..Len(j.v) |-> Base64Decode(j.v[i].v).val])
           ELSE Bad
      [] f = "L" ->
           IF j.t # "arr" THEN Bad
           ELSE LET rs == [i \in 1..Len(j.v) |->
                              UnmarshalAttributeValue(j.v[i])]
                IN  IF \E i \in 1..Len(j.v) : rs[i].err THEN Bad
                    ELSE Good([i \in 1..Len(j.v) |-> rs[i].val])
      [] f = "M" ->
           IF j.t # "obj" THEN Bad
           ELSE LET rs == [k \in DOMAIN j.v |->
                              UnmarshalAttributeValue(j.v[k])]
                IN  IF \E k \in DOMAIN j.v : rs[k].err THEN Bad
                    ELSE Good([k \in DOMAIN j.v |-> rs[k].val])

UnmarshalAttributeValue(j) ==
    IF j.t # "obj" THEN Bad
    ELSE LET fs == DOMAIN j.v \cap Tags
             rs == [f \in fs |-> UnmarshalField(f, j.v[f])]
         IN  IF \E f \in fs : rs[f].err THEN Bad
             ELSE Good([f \in fs |-> rs[f].val])

DecodeFailed == [err |-> "DecodeError", val |-> Nil]

\* decode: the text is unescaped, parsed as JSON and unmarshalled; each
\* step's failure is a DecodeError with a nil value
ConvertJSONToAttributeValue(jsonStr) ==
    LET u == Unescape(jsonStr)
    IN  IF ~u.ok THEN DecodeFailed
        ELSE LET r == JSONDecode(u.text)
             IN  IF ~r.ok THEN DecodeFailed
                 ELSE LET a == UnmarshalAttributeValue(r.val)
                      IN  IF a.err THEN DecodeFailed
                          ELSE [err |-> "", val |-> a.val]

\* toWireFormat: nil gives nil; each populated field is copied to the field
\* of the same name, L and M element by element through this conversion,
\* the first nested failure ending it
RECURSIVE ConvertToDynamoAttributeValue(_)
ConvertToDynamoAttributeValue(av) ==
    IF av = Nil THEN [err |-> "", val |-> Nil]
    ELSE LET ls == IF "L" \in DOMAIN av
                   THEN [i \in 1..Len(av.L) |->
                            ConvertToDynamoAttributeValue(av.L[i])]
                   ELSE << >>
             ms == IF "M" \in DOMAIN av
                   THEN [k \in DOMAIN av.M |->
                            ConvertToDynamoAttributeValue(av.M[k])]
                   ELSE << >>
         IN  IF \/ \E i \in DOMAIN ls : ls[i].err # ""
                \/ \E k \in DOMAIN ms : ms[k].err # ""
             THEN [err |-> "MarshalError", val |-> Nil]
             ELSE [err |-> "",
                   val |-> [f \in DOMAIN av |->
                              CASE f = "L" -> [i \in DOMAIN ls |-> ls[i].val]
                                [] f = "M" -> [k \in DOMAIN ms |-> ms[k].val]
                                [] OTHER   -> av[f]]]

(***************************************************************************)
(* The documents the codec is given: the table of the unit tests, widened  *)
(* to every nesting of L and M up to MaxDepth, and the JSON text each      *)
(* document is written as.                                                 *)
(***************************************************************************)
\* the lists and sets of the tests hold two elements
ListLen == 2

Lists(S) == UNION {[1..k -> S] : k \in 0..ListLen}

\* the keys of the maps of the tests, in the order they are written
Keys == << "key1", "key2" >>

Maps(S) == UNION {[K -> S] : K \in SUBSET {Keys[i] : i \in 1..Len(Keys)}}

\* documents with no other document inside
Leaves ==
    {[S |-> << "example" >>], [S |-> << >>], [N |-> << "12345" >>],
     [B |-> << "base64" >>], [B |-> << >>],
     [BOOL |-> TRUE], [BOOL |-> FALSE], [NULL |-> TRUE]}
    \cup {[SS |-> l] : l \in Lists({<< "value1" >>, << "value2" >>})}
    \cup {[NS |-> l] : l \in Lists({<< "123" >>, << "456" >>})}
    \cup {[BS |-> l] : l \in Lists({<< "base64" >>, << "encoding" >>})}

\* documents nested at most k levels deep
RECURSIVE Nested(_)
Nested(k) ==
    IF k = 0 THEN {[S |-> << "value1" >>], [N |-> << "12345" >>]}
    ELSE LET p == Nested(k - 1)
         IN  p \cup {[L |-> l] : l \in Lists(p)} \cup {[M |-> m] : m \in Maps(p)}

\* documents with several populated fields at once
MultiField ==
    {[S |-> << "example" >>, N |-> << "12345" >>],
     [S |-> << "example" >>, BOOL |-> TRUE],
     [N |-> << "12345" >>, NULL |-> TRUE,
      SS |-> << << "value1" >>, << "value2" >> >>]}

Documents == Leaves \cup Nested(MaxDepth) \cup MultiField

\* texts joined by commas
RECURSIVE Join(_)
Join(ts) ==
    IF Len(ts) = 0 THEN << >>
    ELSE IF Len(ts) = 1 THEN ts[1]
    ELSE ts[1] \o << "," >> \o Join(Tail(ts))

\* the JSON text of a document: its populated fields in declaration order
RECURSIVE AVText(_)
RECURSIVE FieldText(_, _)
FieldText(f, x) ==
    CASE f \in {"S", "N"} -> << Q >> \o x \o << Q >>
      [] f \in {"BOOL", "NULL"} -> << IF x THEN "true" ELSE "false" >>
      [] f = "B" -> << Q >> \o Base64Encode(x) \o << Q >>
      [] f \in {"SS", "NS"} ->
           << "[" >> \o Join([i \in 1..Len(x) |-> << Q >> \o x[i] \o << Q >>])
                     \o << "]" >>
      [] f = "BS" ->
           << "[" >> \o Join([i \in 1..Len(x) |->
                               << Q >> \o Base64Encode(x[i]) \o << Q >>])
                     \o << "]" >>
      [] f = "L" ->
           << "[" >> \o Join([i \in 1..Len(x) |-> AVText(x[i])]) \o << "]" >>
      [] f = "M" ->
           LET ks == SelectSeq(Keys, LAMBDA k : k \in DOMAIN x)
           IN  << "{" >> \o Join([i \in 1..Len(ks) |->
                                    Quoted(ks[i]) \o << ":" >> \o AVText(x[ks[i]])])
                         \o << "}" >>

AVText(v) ==
    LET fs == SelectSeq(TagOrder, LAMBDA f : f \in DOMAIN v)
    IN  << "{" >> \o Join([i \in 1..Len(fs) |->
                             Quoted(fs[i]) \o << ":" >> \o FieldText(fs[i], v[fs[i]])])
                  \o << "}" >>

\* a text as the caller writes it inside a string literal: " as \"
RECURSIVE Escape(_)
Escape(t) ==
    IF Len(t) = 0 THEN << >>
    ELSE IF Len(t) = 1
         THEN IF t[1] \in {Q, Backslash} THEN << Backslash, t[1] >> ELSE t
    ELSE LET h == Len(t) \div 2
         IN  Escape(SubSeq(t, 1, h)) \o Escape(SubSeq(t, h + 1, Len(t)))

\* texts that are no JSON document: the one of the tests, every document's
\* text cut short, and a text that ends in a lone backslash
InvalidTexts ==
    {<< "invalidJSON" >>}
    \cup UNION {{SubSeq(AVText(v), 1, k) : k \in 0..(Len(AVText(v)) - 1)} :
                   v \in Documents}
    \cup {AVText(v) \o << Backslash >> : v \in Leaves}

(***************************************************************************)
(* The schema: what d.Get returns for an attribute the caller left out.    *)
(***************************************************************************)
OptionalKeys ==
    {"consistent_read", "exclusive_start_key", "expression_attribute_names",
     "expression_attribute_values", "filter_expression", "index_name",
     "limit", "projection_expression", "return_consumed_capacity",
     "scan_index_forward", "select"}

\* Default: of the schema, else the zero value of the attribute's type
SchemaDefault(key) ==
    CASE key = "consistent_read"             -> FALSE
      [] key = "scan_index_forward"          -> TRUE
      [] key = "return_consumed_capacity"    -> "NONE"
      [] key = "select"                      -> "ALL_ATTRIBUTES"
      [] key = "limit"                       -> 0
      [] key = "exclusive_start_key"         -> << >>
      [] key = "expression_attribute_names"  -> << >>
      [] key = "expression_attribute_values" -> << >>
      [] OTHER                               -> ""

\* schema.ResourceData.Get
Get(c, key) == IF key \in DOMAIN c THEN c[key] ELSE SchemaDefault(key)

\* the wire field of QueryInput each optional attribute is sent as
WireField(key) ==
    CASE key = "consistent_read"             -> "ConsistentRead"
      [] key = "exclusive_start_key"         -> "ExclusiveStartKey"
      [] key = "expression_attribute_names"  -> "ExpressionAttributeNames"
      [] key = "expression_attribute_values" -> "ExpressionAttributeValues"
      [] key = "filter_expression"           -> "FilterExpression"
      [] key = "index_name"                  -> "IndexName"
      [] key = "limit"                       -> "Limit"
      [] key = "projection_expression"       -> "ProjectionExpression"
      [] key = "return_consumed_capacity"    -> "ReturnConsumedCapacity"
      [] key = "scan_index_forward"          -> "ScanIndexForward"
      [] key = "select"                      -> "Select"

\* a request with field f set to v when cond holds, else unchanged
SetIf(req, cond, f, v) == IF cond THEN (f :> v) @@ req ELSE req

(***************************************************************************)
(* The query request each draft builds from the caller's configuration c.  *)
(* A request is a function from the QueryInput fields that are sent to     *)
(* their values: a field outside its DOMAIN is omitted from the request.   *)
(***************************************************************************)
\* part_000, lines 147-206
QueryInput_part000(c) ==
    LET names  == Get(c, "expression_attribute_names")
        values == MarshalMap(Get(c, "expression_attribute_values"))
        esk    == ExpandTableItemAttributes(Get(c, "exclusive_start_key")).val
        r0  == [TableName        |-> Get(c, "table_name"),
                ConsistentRead   |-> Get(c, "consistent_read"),
                ScanIndexForward |-> Get(c, "scan_index_forward")]
        r1  == SetIf(r0, DOMAIN names # {}, "ExpressionAttributeNames", names)
        r2  == SetIf(r1, DOMAIN values # {}, "ExpressionAttributeValues", values)
        r3  == SetIf(r2, DOMAIN esk # {}, "ExclusiveStartKey", esk)
        r4  == SetIf(r3, Get(c, "filter_expression") # "",
                     "FilterExpression", Get(c, "filter_expression"))
        r5  == SetIf(r4, Get(c, "index_name") # "",
                     "IndexName", Get(c, "index_name"))
        r6  == SetIf(r5, Get(c, "key_condition_expression") # "",
                     "KeyConditionExpression", Get(c, "key_condition_expression"))
        r7  == SetIf(r6, Get(c, "limit") > 0, "Limit", Get(c, "limit"))
        r8  == SetIf(r7, Get(c, "projection_expression") # "",
                     "ProjectionExpression", Get(c, "projection_expression"))
        r9  == SetIf(r8, Get(c, "return_consumed_capacity") # "",
                     "ReturnConsumedCapacity", Get(c, "return_consumed_capacity"))
    IN  SetIf(r9, Get(c, "select") # "", "Select", Get(c, "select"))

\* table_query_data_source.go, lines 126-171: every scalar field is sent,
\* whatever it holds; a nil map is no field of the request
QueryInput_go(c) ==
    LET names  == Get(c, "expression_attribute_names")
        values == WrapAsS(Get(c, "expression_attribute_values"))
        esk    == ExpandTableItemAttributes(Get(c, "exclusive_start_key"))
        r0  == [TableName              |-> Get(c, "table_name"),
                ConsistentRead         |-> Get(c, "consistent_read"),
                FilterExpression       |-> Get(c, "filter_expression"),
                IndexName              |-> Get(c, "index_name"),
                KeyConditionExpression |-> Get(c, "key_condition_expression"),
                Limit                  |-> Get(c, "limit"),
                ProjectionExpression   |-> Get(c, "projection_expression"),
                ReturnConsumedCapacity |-> Get(c, "return_consumed_capacity"),
                ScanIndexForward       |-> Get(c, "scan_index_forward"),
                Select                 |-> Get(c, "select")]
        r1  == SetIf(r0, ~esk.err, "ExclusiveStartKey", esk.val)
        r2  == SetIf(r1, DOMAIN names # {}, "ExpressionAttributeNames", names)
    IN  SetIf(r2, DOMAIN values # {}, "ExpressionAttributeValues", values)

\* a slip: the index name is put before the key condition
buildTableQueryDataSourceID_indexFirst(tableName, indexName, keyConditionExpression, nanos) ==
    LET a == << tableName >>
        b == IF indexName # ""
             THEN a \o << "|", "IndexName", "|", indexName >>
             ELSE a
        e == IF keyConditionExpression # ""
             THEN b \o << "|", "KeyConditionExpression", "|", keyConditionExpression >>
             ELSE b
    IN  e \o << "|", Itoa(nanos) >>

\* buildTableQueryDataSourceID: the segments joined by "|"
buildTableQueryDataSourceID(tableName, indexName, keyConditionExpression, nanos) ==
    LET a == << tableName >>
        b == IF keyConditionExpression # ""
             THEN a \o << "|", "KeyConditionExpression", "|", keyConditionExpression >>
             ELSE a
        e == IF indexName # ""
             THEN b \o << "|", "IndexName", "|", indexName >>
             ELSE b
    IN  e \o << "|", Itoa(nanos) >>

(***************************************************************************)
(* The remote store: one partition of n records, sort keys 1..n, answered  *)
(* a page at a time.                                                       *)
(***************************************************************************)
\* the record with sort key i
Item(i) ==
    [Category |-> [S |-> Str(IF i % 2 = 1 THEN "A" ELSE "B")],
     hashKey  |-> [S |-> Str("something")],
     sortKey  |-> [N |-> Str(Itoa(i))]]

\* the key of record i, as the store hands it out for resuming
KeyOf(i) == [sortKey |-> [N |-> Str(Itoa(i))]]

Min(a, b) == IF a < b THEN a ELSE b

\* the store refuses a request that lacks the key condition or its
\* placeholder value, or carries an empty or zero field, or a key of no record
StoreRejects(req, n) ==
    \/ "KeyConditionExpression" \notin DOMAIN req
    \/ req.KeyConditionExpression = ""
    \/ "ExpressionAttributeValues" \notin DOMAIN req
    \/ ":value" \notin DOMAIN req.ExpressionAttributeValues
    \/ \E f \in {"FilterExpression", "IndexName", "ProjectionExpression",
                  "ReturnConsumedCapacity", "Select"} :
           f \in DOMAIN req /\ req[f] = ""
    \/ "Limit" \in DOMAIN req /\ req.Limit < 1
    \/ "ExclusiveStartKey" \in DOMAIN req
         /\ \A i \in 1..n : req.ExclusiveStartKey # KeyOf(i)

\* the sort keys of the records the key condition selects, in scan order
ScanOrder(req, n) ==
    IF req.ExpressionAttributeValues[":value"] # [S |-> Str("something")]
    THEN << >>
    ELSE IF "ScanIndexForward" \in DOMAIN req /\ req.ScanIndexForward = FALSE
    THEN [i \in 1..n |-> n + 1 - i]
    ELSE [i \in 1..n |-> i]

\* the records still to scan: those after the exclusive start key
Remaining(req, n) ==
    LET o == ScanOrder(req, n)
    IN  IF "ExclusiveStartKey" \notin DOMAIN req THEN o
        ELSE LET pos == CHOOSE i \in 1..Len(o) \cup {0} :
                            \/ i > 0 /\ KeyOf(o[i]) = req.ExclusiveStartKey
                            \/ i = 0 /\ \A j \in 1..Len(o) :
                                          KeyOf(o[j]) # req.ExclusiveStartKey
             IN  IF pos = 0 THEN << >> ELSE SubSeq(o, pos + 1, Len(o))

\* the most records one page scans
PageCap(req) ==
    IF "Limit" \in DOMAIN req THEN Min(req.Limit, StorePageMax) ELSE StorePageMax

Passes(req, i) ==
    "FilterExpression" \in DOMAIN req => Item(i).Category = [S |-> Str("A")]

Project(req, item) ==
    IF "ProjectionExpression" \in DOMAIN req
    THEN [a \in {"sortKey"} |-> item[a]]
    ELSE item

\* the page that scans the first k of the remaining records
Page(req, n, k) ==
    LET rem     == Remaining(req, n)
        scanned == SubSeq(rem, 1, k)
        matched == SelectSeq(scanned, LAMBDA i : Passes(req, i))
    IN  [Items            |-> IF "Select" \in DOMAIN req /\ req.Select = "COUNT"
                              THEN << >>
                              ELSE [j \in 1..Len(matched) |->
                                       Project(req, Item(matched[j]))],
         Count            |-> Len(matched),
         ScannedCount     |-> k,
         LastEvaluatedKey |-> IF k < Len(rem) THEN KeyOf(scanned[k]) ELSE << >>,
         ConsumedCapacity |-> IF "ReturnConsumedCapacity" \in DOMAIN req
                                 /\ req.ReturnConsumedCapacity # "NONE"
                              THEN [CapacityUnits |-> k]
                              ELSE << >>]

\* the page sizes the store may choose for a request
PageSizes(req, n) ==
    LET rem == Remaining(req, n)
    IN  IF Len(rem) = 0 THEN {0} ELSE 1..Min(PageCap(req), Len(rem))

\* the attribute names of an item, in the order json.Marshal writes them
AttrOrder == << "Category", "hashKey", "sortKey" >>

\* flattenTableItemAttributes: the item as one JSON object text
RECURSIVE FlattenFrom(_, _, _)
FlattenFrom(item, i, first) ==
    IF i > Len(AttrOrder) THEN << >>
    ELSE LET a == AttrOrder[i]
         IN  IF a \notin DOMAIN item THEN FlattenFrom(item, i + 1, first)
             ELSE LET tag == CHOOSE f \in DOMAIN item[a] : TRUE
                  IN  (IF first THEN << >> ELSE << "," >>)
                      \o Quoted(a) \o << ":" >>
                      \o TypedText(tag, item[a][tag][1])
                      \o FlattenFrom(item, i + 1, FALSE)

flattenTableItemAttributes(item) ==
    << "{" >> \o FlattenFrom(item, 1, TRUE) \o << "}" >>

(***************************************************************************)
(* One invocation of the read handler.                                     *)
(***************************************************************************)
VARIABLES
    variant,  \* which draft of dataSourceTableQueryRead runs
    cfg,      \* the caller's configuration: attribute -> value, set ones only
    n,        \* the number of records in the queried partition
    now,      \* time.Now().UnixNano() as the invocation reads it
    pc,       \* "start", "built", "answered", "done" or "failed"
    in,       \* the QueryInput built from cfg
    sent,     \* the requests issued to the store so far, in order
    pages,    \* the pages the store answered so far, in order
    d,        \* the ResourceData outputs set so far: attribute -> value
    diag,     \* the error the handler returned, "" for none
    cancelled, \* whether the caller has cancelled the handler's context
    other,     \* a second invocation, not running at the moment: its
               \* variant, cfg, pc, in, sent, pages, d, diag; Nil for none
    call,       \* the codec function the caller invokes, "" for none
    jsonStr,    \* the text given to ConvertJSONToAttributeValue
    expectedAV, \* the document that text was written from, Nil for none
    av,         \* the AttributeValue decoded, or given to the conversion
    wire,       \* the wire value ConvertToDynamoAttributeValue returned
    cerr,       \* the error the codec returned, "" for none
    cpc         \* "idle", "decode", "convert", "converted" or "failed"

\* the state of a call of the codec
codec == << call, jsonStr, expectedAV, av, wire, cerr, cpc >>

vars ==
    << variant, cfg, n, now, pc, in, sent, pages, d, diag, cancelled, other,
       codec >>

Variants == {"part_000", "go"}

\* the values a caller gives the placeholder :value
ValueTexts == {TypedText("S", "something"), Str("something")}

\* the texts a caller gives as exclusive_start_key: a record's key, or a
\* text cut short
StartKeyTexts ==
    {ItemText("sortKey", "N", "1"), << "{", Q, "sortKey", Q, ":" >>}

\* attributes the handler only passes on, each with the value it is given
PassedOn ==
    [consistent_read            |-> TRUE,
     expression_attribute_names |-> ("#P" :> "Percentile"),
     index_name                 |-> "exampleIndex",
     projection_expression      |-> "sortKey",
     return_consumed_capacity   |-> "TOTAL"]

\* the caller sets none of them, one of them, or all
PassedOnSets ==
    {{}} \cup {{k} : k \in DOMAIN PassedOn} \cup {DOMAIN PassedOn}

Restrict(f, S) == [k \in S |-> f[k]]

\* a configuration: the required attributes, and each optional one the
\* caller chose to set (lim = 0 and cap = 0: not set)
Config(vals, esk, lim, cap, filter, sel, fwd, passed) ==
    LET c0 == [table_name               |-> "tbl",
               key_condition_expression |-> "hashKey = :value"]
        c1 == SetIf(c0, vals # << >>, "expression_attribute_values",
                    (":value" :> vals))
        c2 == SetIf(c1, esk # << >>, "exclusive_start_key", esk)
        c3 == SetIf(c2, lim > 0, "limit", lim)
        c4 == SetIf(c3, cap > 0, "output_limit", cap)
        c5 == SetIf(c4, filter, "filter_expression", "Category = :category")
        c6 == SetIf(c5, sel, "select", "COUNT")
        c7 == SetIf(c6, fwd, "scan_index_forward", FALSE)
    IN  Restrict(PassedOn, passed) @@ c7

Init ==
    /\ variant \in Variants
    /\ \E vals \in ValueTexts \cup {<< >>}, esk \in StartKeyTexts \cup {<< >>},
          lim \in 0..MaxLimit, cap \in 0..MaxCap,
          filter \in BOOLEAN, sel \in BOOLEAN, fwd \in BOOLEAN,
          passed \in PassedOnSets :
          cfg = Config(vals, esk, lim, cap, filter, sel, fwd, passed)
    /\ n \in 0..MaxItems
    /\ now = 1
    /\ pc = "start"
    /\ in = << >>
    /\ sent = << >>
    /\ pages = << >>
    /\ d = << >>
    /\ diag = ""
    /\ cancelled = FALSE
    /\ other = Nil
    /\ call = ""
    /\ jsonStr = << >>
    /\ expectedAV = Nil
    /\ av = Nil
    /\ wire = Nil
    /\ cerr = ""
    /\ cpc = "idle"

\* the handler returns err before anything else happened
ReturnErr(kind) ==
    /\ pc' = "failed"
    /\ diag' = kind
    /\ UNCHANGED << variant, cfg, n, now, in, sent, pages, d >>

\* a slip: the values are marshalled only after the query went out
Read_part000_marshalsLate ==
    /\ pc = "start"
    /\ UNCHANGED << cancelled, other, codec >>
    /\ variant = "part_000"
    /\ \/ /\ "expression_attribute_values" \in DOMAIN cfg
          /\ sent' = << QueryInput_part000(
                          Restrict(cfg, DOMAIN cfg \ {"expression_attribute_values"})) >>
          /\ pc' = "failed"
          /\ diag' = "MarshalError"
          /\ UNCHANGED << variant, cfg, n, now, in, pages, d >>
       \/ /\ in' = QueryInput_part000(cfg)
          /\ pc' = "built"
          /\ UNCHANGED << variant, cfg, n, now, sent, pages, d, diag >>

\* part_000, lines 139-206: the request is built; MarshalMap may report an
\* error (lines 165-168), the error of ExpandTableItemAttributes is dropped
\* (line 175)
Read_part000 ==
    /\ pc = "start"
    /\ UNCHANGED << cancelled, other, codec >>
    /\ variant = "part_000"
    /\ \/ /\ "expression_attribute_values" \in DOMAIN cfg
          /\ ReturnErr("MarshalError")
       \/ /\ in' = QueryInput_part000(cfg)
          /\ pc' = "built"
          /\ UNCHANGED << variant, cfg, n, now, sent, pages, d, diag >>

\* table_query_data_source.go, lines 115-171: the start key is decoded
\* first and its error returned (lines 121-124); the identifier is set
\* before the query (lines 154-155)
Read_go ==
    /\ pc = "start"
    /\ UNCHANGED << cancelled, other, codec >>
    /\ variant = "go"
    /\ IF ExpandTableItemAttributes(Get(cfg, "exclusive_start_key")).err
       THEN ReturnErr("DecodeError")
       ELSE /\ in' = QueryInput_go(cfg)
            /\ d' = ("id" :> buildTableQueryDataSourceID(
                                 Get(cfg, "table_name"), Get(cfg, "index_name"),
                                 Get(cfg, "key_condition_expression"), now))
            /\ pc' = "built"
            /\ UNCHANGED << variant, cfg, n, now, sent, pages, diag >>

\* a slip: the error of QueryWithContext is not looked at, and the handler
\* goes on to set its outputs from the empty answer
Query_ignoresError ==
    /\ pc = "built"
    /\ UNCHANGED << cancelled, other, codec >>
    /\ sent' = Append(sent, in)
    /\ \/ /\ pc' = "done"
          /\ d' = [items |-> << >>, scanned_count |-> 0, item_count |-> 0]
          /\ UNCHANGED << pages, diag >>
       \/ /\ ~StoreRejects(in, n)
          /\ \E k \in PageSizes(in, n) : pages' = Append(pages, Page(in, n, k))
          /\ pc' = "answered"
          /\ UNCHANGED << d, diag >>
    /\ UNCHANGED << variant, cfg, n, now, in >>

\* a slip: the query is made without the context, so a cancellation is
\* not seen
Query_withoutContext ==
    /\ pc = "built"
    /\ UNCHANGED << cancelled, other, codec >>
    /\ sent' = Append(sent, in)
    /\ \/ /\ pc' = "failed"
          /\ diag' = "StoreError"
          /\ UNCHANGED pages
       \/ /\ ~StoreRejects(in, n)
          /\ \E k \in PageSizes(in, n) : pages' = Append(pages, Page(in, n, k))
          /\ pc' = "answered"
          /\ UNCHANGED diag
    /\ UNCHANGED << variant, cfg, n, now, in, d >>

\* a slip: a call the store answered with an error is made once more
Query_retries ==
    /\ pc = "built"
    /\ UNCHANGED << cancelled, other, codec >>
    /\ sent' = Append(sent, in)
    /\ \/ /\ pc' = IF Len(sent) = 0 THEN "built" ELSE "failed"
          /\ diag' = IF Len(sent) = 0 THEN diag ELSE "StoreError"
          /\ UNCHANGED pages
       \/ /\ ~StoreRejects(in, n)
          /\ \E k \in PageSizes(in, n) : pages' = Append(pages, Page(in, n, k))
          /\ pc' = "answered"
          /\ UNCHANGED diag
    /\ UNCHANGED << variant, cfg, n, now, in, d >>

\* a slip: the call sends the request without its filter expression
Query_dropsFilter ==
    LET req == [k \in DOMAIN in \ {"FilterExpression"} |-> in[k]]
    IN  /\ pc = "built"
        /\ UNCHANGED << cancelled, other, codec >>
        /\ sent' = Append(sent, req)
        /\ \/ /\ pc' = "failed"
              /\ diag' = "StoreError"
              /\ UNCHANGED pages
           \/ /\ ~StoreRejects(req, n)
              /\ \E k \in PageSizes(req, n) :
                     pages' = Append(pages, Page(req, n, k))
              /\ pc' = "answered"
              /\ UNCHANGED diag
        /\ UNCHANGED << variant, cfg, n, now, in, d >>

\* a slip: the request is kept in a variable the invocations share, so the
\* call sends what the invocation that built its request last has written
Query_sharedRequest ==
    LET req == IF other # Nil /\ other.pc # "start" THEN other.in ELSE in
    IN  /\ pc = "built"
        /\ UNCHANGED << cancelled, other, codec >>
        /\ sent' = Append(sent, req)
        /\ \/ /\ pc' = "failed"
              /\ diag' = "StoreError"
              /\ UNCHANGED pages
           \/ /\ ~StoreRejects(req, n)
              /\ \E k \in PageSizes(req, n) :
                     pages' = Append(pages, Page(req, n, k))
              /\ pc' = "answered"
              /\ UNCHANGED diag
        /\ UNCHANGED << variant, cfg, n, now, in, d >>

\* conn.QueryWithContext (part_000 lines 208-211, .go lines 173-176): the
\* store answers one page, or an error, which the handler returns; with a
\* cancelled context the call returns the cancellation error and no request
\* reaches the store
Query ==
    /\ pc = "built"
    /\ UNCHANGED << cancelled, other, codec >>
    /\ IF cancelled
       THEN /\ pc' = "failed"
            /\ diag' = "RequestCanceled"
            /\ UNCHANGED << sent, pages >>
       ELSE /\ sent' = Append(sent, in)
            /\ \/ /\ pc' = "failed"
                  /\ diag' = "StoreError"
                  /\ UNCHANGED pages
               \/ /\ ~StoreRejects(in, n)
                  /\ \E k \in PageSizes(in, n) :
                         pages' = Append(pages, Page(in, n, k))
                  /\ pc' = "answered"
                  /\ UNCHANGED diag
    /\ UNCHANGED << variant, cfg, n, now, in, d >>

\* the caller cancels the context the handler was given, at any point
\* before the handler has returned
Cancel ==
    /\ pc \in {"start", "built", "answered"}
    /\ ~cancelled
    /\ cancelled' = TRUE
    /\ UNCHANGED << variant, cfg, n, now, pc, in, sent, pages, d, diag, other,
                    codec >>

\* the page the handler is processing
out == pages[Len(pages)]

\* a slip: each flattened item is put in front of the ones before it
FlattenAll_prepends(items) ==
    [j \in 1..Len(items) |->
        flattenTableItemAttributes(items[Len(items) + 1 - j])]

\* a slip: each attribute is written as its bare value, the type tag lost
FlattenAll_untagged(items) ==
    [j \in 1..Len(items) |->
        << "{" >>
        \o Join([i \in 1..Len(SelectSeq(AttrOrder,
                                        LAMBDA a : a \in DOMAIN items[j])) |->
                   LET a == SelectSeq(AttrOrder,
                                      LAMBDA b : b \in DOMAIN items[j])[i]
                       f == CHOOSE g \in DOMAIN items[j][a] : TRUE
                   IN  Quoted(a) \o << ":", Q >> \o items[j][a][f] \o << Q >>])
        \o << "}" >>]

\* the flattened items of a page, in the page's order
FlattenAll(items) ==
    [j \in 1..Len(items) |-> flattenTableItemAttributes(items[j])]

\* a slip: the handler asks for the next page whenever the store returned a
\* resume cursor, whatever it has collected
Finish_part000_refetches ==
    /\ pc = "answered"
    /\ UNCHANGED << cancelled, other, codec >>
    /\ variant = "part_000"
    /\ d' = [id                 |-> buildTableQueryDataSourceID(
                                        Get(cfg, "table_name"),
                                        Get(cfg, "index_name"),
                                        Get(cfg, "key_condition_expression"), now),
             last_evaluated_key |-> out.LastEvaluatedKey,
             scanned_count      |-> out.ScannedCount,
             consumed_capacity  |-> out.ConsumedCapacity,
             items              |-> [j \in 1..Len(out.Items) |->
                                        flattenTableItemAttributes(out.Items[j])],
             item_count         |-> out.Count]
    /\ IF DOMAIN out.LastEvaluatedKey # {}
       THEN /\ pc' = "built"
            /\ in' = ("ExclusiveStartKey" :> out.LastEvaluatedKey) @@ in
       ELSE /\ pc' = "done"
            /\ UNCHANGED in
    /\ UNCHANGED << variant, cfg, n, now, sent, pages, diag >>

\* a slip: the matched-item count is taken from the number of flattened items
Finish_part000_countsItems ==
    /\ pc = "answered"
    /\ UNCHANGED << cancelled, other, codec >>
    /\ variant = "part_000"
    /\ d' = [id                 |-> buildTableQueryDataSourceID(
                                        Get(cfg, "table_name"),
                                        Get(cfg, "index_name"),
                                        Get(cfg, "key_condition_expression"), now),
             last_evaluated_key |-> out.LastEvaluatedKey,
             scanned_count      |-> out.ScannedCount,
             consumed_capacity  |-> out.ConsumedCapacity,
             items              |-> FlattenAll(out.Items),
             item_count         |-> Len(out.Items)]
    /\ pc' = "done"
    /\ UNCHANGED << variant, cfg, n, now, in, sent, pages, diag >>

\* a slip: when an item fails to flatten, the items flattened before it and
\* the page's counts are set all the same
Finish_part000_keepsPartial ==
    /\ pc = "answered"
    /\ UNCHANGED << cancelled, other, codec >>
    /\ variant = "part_000"
    /\ LET id == buildTableQueryDataSourceID(
                     Get(cfg, "table_name"), Get(cfg, "index_name"),
                     Get(cfg, "key_condition_expression"), now)
       IN  \/ /\ Len(out.Items) > 0
              /\ d' = [id            |-> id,
                       scanned_count |-> out.ScannedCount,
                       items         |-> FlattenAll(SubSeq(out.Items, 1,
                                                          Len(out.Items) - 1)),
                       item_count    |-> out.Count]
              /\ pc' = "failed"
              /\ diag' = "SerializationError"
           \/ /\ d' = [id                 |-> id,
                       last_evaluated_key |-> out.LastEvaluatedKey,
                       scanned_count      |-> out.ScannedCount,
                       consumed_capacity  |-> out.ConsumedCapacity,
                       items              |-> FlattenAll(out.Items),
                       item_count         |-> out.Count]
              /\ pc' = "done"
              /\ UNCHANGED diag
    /\ UNCHANGED << variant, cfg, n, now, in, sent, pages >>

\* part_000, lines 213-234: the identifier is set, the items are flattened
\* (a failure returns the error), then the outputs are set
Finish_part000 ==
    /\ pc = "answered"
    /\ UNCHANGED << cancelled, other, codec >>
    /\ variant = "part_000"
    /\ LET id == buildTableQueryDataSourceID(
                     Get(cfg, "table_name"), Get(cfg, "index_name"),
                     Get(cfg, "key_condition_expression"), now)
       IN  \/ /\ Len(out.Items) > 0
              /\ d' = ("id" :> id)
              /\ pc' = "failed"
              /\ diag' = "SerializationError"
           \/ /\ d' = [id                 |-> id,
                       last_evaluated_key |-> out.LastEvaluatedKey,
                       scanned_count      |-> out.ScannedCount,
                       consumed_capacity  |-> out.ConsumedCapacity,
                       items              |-> FlattenAll(out.Items),
                       item_count         |-> out.Count]
              /\ pc' = "done"
              /\ UNCHANGED diag
    /\ UNCHANGED << variant, cfg, n, now, in, sent, pages >>

\* table_query_data_source.go, lines 178-194
Finish_go ==
    /\ pc = "answered"
    /\ UNCHANGED << cancelled, other, codec >>
    /\ variant = "go"
    /\ \/ /\ Len(out.Items) > 0
          /\ pc' = "failed"
          /\ diag' = "SerializationError"
          /\ UNCHANGED d
       \/ /\ d' = [id                 |-> d.id,
                   items              |-> FlattenAll(out.Items),
                   last_evaluated_key |-> out.LastEvaluatedKey,
                   scanned_count      |-> out.ScannedCount,
                   consumed_capacity  |-> out.ConsumedCapacity,
                   count              |-> out.Count]
          /\ pc' = "done"
          /\ UNCHANGED diag
    /\ UNCHANGED << variant, cfg, n, now, in, sent, pages >>

Next ==
    \/ Read_part000
    \/ Read_go
    \/ Query
    \/ Finish_part000
    \/ Finish_go
    \/ Cancel

Spec == Init /\ [][Next]_vars

(***************************************************************************)
(* Two invocations of the read handler at once, against the same table.    *)
(* Each runs the handler's steps on its own ResourceData and locals; the   *)
(* scheduler switches between them at any point.                           *)
(***************************************************************************)
\* no call of the codec is running
CodecIdle ==
    /\ call = ""
    /\ jsonStr = << >>
    /\ expectedAV = Nil
    /\ av = Nil
    /\ wire = Nil
    /\ cerr = ""
    /\ cpc = "idle"

\* the invocation that is running, as it is parked at a switch
Running ==
    [variant |-> variant, cfg |-> cfg, pc |-> pc, in |-> in, sent |-> sent,
     pages |-> pages, d |-> d, diag |-> diag]

\* the configurations of the two invocations: the placeholder value that
\* selects the partition, with a page-size hint and a scan order of choice
PairConfigs ==
    {Config(Str("something"), << >>, lim, 0, FALSE, FALSE, fwd, {}) :
        lim \in 0..MaxLimit, fwd \in BOOLEAN}

PairInit ==
    /\ variant = "part_000"
    /\ cfg \in PairConfigs
    /\ n \in 1..MaxItems
    /\ now = 1
    /\ pc = "start"
    /\ in = << >>
    /\ sent = << >>
    /\ pages = << >>
    /\ d = << >>
    /\ diag = ""
    /\ cancelled = FALSE
    /\ \E c \in PairConfigs :
          other = [variant |-> "part_000", cfg |-> c, pc |-> "start",
                   in |-> << >>, sent |-> << >>, pages |-> << >>,
                   d |-> << >>, diag |-> ""]
    /\ CodecIdle

\* the scheduler parks the running invocation and resumes the other one
Switch ==
    /\ other # Nil
    /\ other' = Running
    /\ variant' = other.variant
    /\ cfg' = other.cfg
    /\ pc' = other.pc
    /\ in' = other.in
    /\ sent' = other.sent
    /\ pages' = other.pages
    /\ d' = other.d
    /\ diag' = other.diag
    /\ UNCHANGED << n, now, cancelled, codec >>

PairNext ==
    \/ Read_part000
    \/ Query
    \/ Finish_part000
    \/ Switch

PairSpec == PairInit /\ [][PairNext]_vars

(***************************************************************************)
(* One call of the codec, as the unit tests make it: a text is decoded and *)
(* the value converted to the wire form, or a value (nil included) is      *)
(* given to the conversion directly.                                       *)
(***************************************************************************)
\* no invocation of the read handler is running
HandlerIdle ==
    /\ variant = "none"
    /\ cfg = << >>
    /\ n = 0
    /\ now = 0
    /\ pc = "idle"
    /\ in = << >>
    /\ sent = << >>
    /\ pages = << >>
    /\ d = << >>
    /\ diag = ""
    /\ cancelled = FALSE
    /\ other = Nil

CodecInit ==
    /\ HandlerIdle
    /\ wire = Nil
    /\ cerr = ""
    /\ \/ /\ call = "ConvertJSONToAttributeValue"
          /\ cpc = "decode"
          /\ av = Nil
          /\ \/ \E v \in Documents :
                   /\ expectedAV = v
                   /\ jsonStr \in {AVText(v), Escape(AVText(v))}
             \/ /\ expectedAV = Nil
                /\ jsonStr \in InvalidTexts
       \/ /\ call = "ConvertToDynamoAttributeValue"
          /\ cpc = "convert"
          /\ jsonStr = << >>
          /\ av \in Documents \cup {Nil}
          /\ expectedAV = av

\* a slip: a text that does not parse is answered with an empty value
DecodeCall_partial ==
    /\ cpc = "decode"
    /\ LET r == ConvertJSONToAttributeValue(jsonStr)
       IN  /\ av' = IF r.err = "" THEN r.val ELSE << >>
           /\ cerr' = r.err
           /\ cpc' = IF r.err = "" THEN "convert" ELSE "failed"
    /\ UNCHANGED << variant, cfg, n, now, pc, in, sent, pages, d, diag,
                    cancelled, other, call, jsonStr, expectedAV, wire >>

\* a slip: a document with more than one populated field is refused
DecodeCall_rejectsMixed ==
    /\ cpc = "decode"
    /\ LET r == ConvertJSONToAttributeValue(jsonStr)
           e == IF r.err = "" /\ Cardinality(DOMAIN r.val) > 1
                THEN DecodeFailed ELSE r
       IN  /\ av' = e.val
           /\ cerr' = e.err
           /\ cpc' = IF e.err = "" THEN "convert" ELSE "failed"
    /\ UNCHANGED << variant, cfg, n, now, pc, in, sent, pages, d, diag,
                    cancelled, other, call, jsonStr, expectedAV, wire >>

\* result, err := ConvertJSONToAttributeValue(jsonStr)
DecodeCall ==
    /\ cpc = "decode"
    /\ LET r == ConvertJSONToAttributeValue(jsonStr)
       IN  /\ av' = r.val
           /\ cerr' = r.err
           /\ cpc' = IF r.err = "" THEN "convert" ELSE "failed"
    /\ UNCHANGED << variant, cfg, n, now, pc, in, sent, pages, d, diag,
                    cancelled, other, call, jsonStr, expectedAV, wire >>

\* a slip: the elements of a list are not carried over
ConvertCall_dropsList ==
    /\ cpc = "convert"
    /\ LET r == ConvertToDynamoAttributeValue(av)
       IN  /\ wire' = IF r.val # Nil /\ "L" \in DOMAIN r.val
                      THEN [r.val EXCEPT !["L"] = << >>]
                      ELSE r.val
           /\ cerr' = r.err
           /\ cpc' = IF r.err = "" THEN "converted" ELSE "failed"
    /\ UNCHANGED << variant, cfg, n, now, pc, in, sent, pages, d, diag,
                    cancelled, other, call, jsonStr, expectedAV, av >>

\* a slip: a nil value is answered with an error
ConvertCall_rejectsNil ==
    /\ cpc = "convert"
    /\ LET r == ConvertToDynamoAttributeValue(av)
       IN  /\ wire' = r.val
           /\ cerr' = IF av = Nil THEN "MarshalError" ELSE r.err
           /\ cpc' = IF av # Nil /\ r.err = "" THEN "converted" ELSE "failed"
    /\ UNCHANGED << variant, cfg, n, now, pc, in, sent, pages, d, diag,
                    cancelled, other, call, jsonStr, expectedAV, av >>

\* a slip: the elements of a list are carried over last to first
ConvertCall_reversesList ==
    /\ cpc = "convert"
    /\ LET r == ConvertToDynamoAttributeValue(av)
       IN  /\ wire' = IF r.val # Nil /\ "L" \in DOMAIN r.val
                      THEN [r.val EXCEPT !["L"] =
                               [i \in 1..Len(r.val.L) |->
                                   r.val.L[Len(r.val.L) + 1 - i]]]
                      ELSE r.val
           /\ cerr' = r.err
           /\ cpc' = IF r.err = "" THEN "converted" ELSE "failed"
    /\ UNCHANGED << variant, cfg, n, now, pc, in, sent, pages, d, diag,
                    cancelled, other, call, jsonStr, expectedAV, av >>

\* result, err := ConvertToDynamoAttributeValue(av)
ConvertCall ==
    /\ cpc = "convert"
    /\ LET r == ConvertToDynamoAttributeValue(av)
       IN  /\ wire' = r.val
           /\ cerr' = r.err
           /\ cpc' = IF r.err = "" THEN "converted" ELSE "failed"
    /\ UNCHANGED << variant, cfg, n, now, pc, in, sent, pages, d, diag,
                    cancelled, other, call, jsonStr, expectedAV, av >>

CodecNext ==
    \/ DecodeCall
    \/ ConvertCall

CodecSpec == CodecInit /\ [][CodecNext]_vars

(***************************************************************************)
(* One call of buildTableQueryDataSourceID, on any table name, key         *)
(* condition and index name (the empty ones included) at any time.         *)
(***************************************************************************)
TableNames == {"tbl", "orders"}

KeyConditions == {"", "hashKey = :value", "ID = :id"}

IndexNames == {"", "exampleIndex", "byCategory"}

IdInit ==
    /\ variant = "none"
    /\ cfg \in [table_name : TableNames,
                key_condition_expression : KeyConditions,
                index_name : IndexNames]
    /\ n = 0
    /\ now \in 1..MaxNow
    /\ pc = "id"
    /\ in = << >>
    /\ sent = << >>
    /\ pages = << >>
    /\ d = << >>
    /\ diag = ""
    /\ cancelled = FALSE
    /\ other = Nil
    /\ CodecIdle

\* id := buildTableQueryDataSourceID(...); d.SetId(id)
SetId ==
    /\ pc = "id"
    /\ d' = ("id" :> buildTableQueryDataSourceID(
                         cfg.table_name, cfg.index_name,
                         cfg.key_condition_expression, now))
    /\ pc' = "id_set"
    /\ UNCHANGED << variant, cfg, n, now, in, sent, pages, diag, cancelled,
                    other, codec >>

IdNext == SetId

IdSpec == IdInit /\ [][IdNext]_vars

(***************************************************************************)
(* What the claims speak of.                                               *)
(***************************************************************************)
\* the outputs that carry results (the identifier is not one of them)
ResultKeys ==
    {"items", "scanned_count", "item_count", "count", "last_evaluated_key",
     "consumed_capacity"}

\* the matched-item count output, under the name the draft gives it
MatchedCount == IF "item_count" \in DOMAIN d THEN d.item_count ELSE d.count

\* whether the caller configured an output cap
HasCap == "output_limit" \in DOMAIN cfg

RECURSIVE SumOver(_, _)
SumOver(ps, f) ==
    IF Len(ps) = 0 THEN 0 ELSE ps[1][f] + SumOver(Tail(ps), f)

RECURSIVE AllItems(_)
AllItems(ps) ==
    IF Len(ps) = 0 THEN << >> ELSE ps[1].Items \o AllItems(Tail(ps))

\* the items the store holds for the request, were it read to the end
StoreTotal == Len(Page(in, n, Len(Remaining(in, n))).Items)

Atoi(c) == CHOOSE i \in 0..9 : Itoa(i) = c

\* the sort key of a flattened item, read back from its JSON text
SortKeyOf(text) == Atoi(JSONDecode(text).val.v["sortKey"].v["N"].v[1])

\* C1: with no output cap, an invocation that ends well has fetched every
\* page the store has (its last page carries no resume cursor, one fetch per
\* page) and returns every item of every page, with scanned and matched
\* counts equal to the sums of the pages' counts.
C1_FetchesEveryPage ==
    (pc = "done" /\ ~HasCap) =>
        /\ DOMAIN pages[Len(pages)].LastEvaluatedKey = {}
        /\ Len(sent) = Len(pages)
        /\ Len(d.items) = Len(AllItems(pages))
        /\ d.scanned_count = SumOver(pages, "ScannedCount")
        /\ MatchedCount = SumOver(pages, "Count")

\* C2: when the store reports an error on a page fetch (a request went out
\* and no page came back), the invocation has failed with that error and no
\* items, counts or resume cursor are among the outputs.
C2_StoreErrorOnly ==
    (Len(sent) > Len(pages)) =>
        /\ pc = "failed"
        /\ diag = "StoreError"
        /\ DOMAIN d \cap ResultKeys = {}

C2_Witness == Len(sent) = 1 /\ Len(pages) = 0 /\ diag = "StoreError"

\* C3: with an output cap c >= 1 the items output never holds more than c
\* items, and at the end it holds exactly min(c, items the store would return).
C3_CapBoundsItems ==
    (HasCap /\ "items" \in DOMAIN d) =>
        /\ Len(d.items) <= cfg.output_limit
        /\ pc = "done" => Len(d.items) = Min(cfg.output_limit, StoreTotal)

\* the output cap has been reached by the items collected
CapReached ==
    HasCap /\ "items" \in DOMAIN d /\ Len(d.items) >= cfg.output_limit

C5_OrderPreserved ==
    (pc = "done") =>
        LET ks   == [j \in 1..Len(d.items) |-> SortKeyOf(d.items[j])]
            desc == /\ "scan_index_forward" \in DOMAIN cfg
                    /\ cfg.scan_index_forward = FALSE
        IN  /\ Len(d.items) = Len(out.Items)
            /\ \A j \in 1..Len(d.items) :
                   d.items[j] = flattenTableItemAttributes(out.Items[j])
            /\ \A i, j \in 1..Len(d.items) :
                   i < j => IF desc THEN ks[i] > ks[j] ELSE ks[i] < ks[j]

C5_Witness ==
    /\ pc = "done"
    /\ Get(cfg, "scan_index_forward") = FALSE
    /\ Len(d.items) = 3
    /\ [j \in 1..3 |-> SortKeyOf(d.items[j])] = << 3, 2, 1 >>

\* C6: a placeholder value given as a JSON typed document is sent as the
\* wire value of that type: the text {"S": "something"} goes out as a
\* string attribute holding something.
C6_ValueDecoded ==
    \A i \in 1..Len(sent) :
        "expression_attribute_values" \in DOMAIN cfg =>
            LET text == cfg.expression_attribute_values[":value"]
                doc  == JSONDecode(text)
            IN  doc.ok =>
                  /\ "ExpressionAttributeValues" \in DOMAIN sent[i]
                  /\ sent[i].ExpressionAttributeValues[":value"]
                       = AttributeValueOf(doc.val).val

C8_AbsentOmitted ==
    \A i \in 1..Len(sent) :
        \A k \in OptionalKeys \ DOMAIN cfg : WireField(k) \notin DOMAIN sent[i]

\* C9: with no output cap configured the result is not truncated: the
\* invocation ends only after the store signalled that no page is left, and
\* the items output holds every item the store has for the request.
C9_NoCapNoTruncation ==
    (pc = "done" /\ ~HasCap) =>
        /\ DOMAIN out.LastEvaluatedKey = {}
        /\ Len(d.items) = StoreTotal

C12_QueryCountReported ==
    (pc = "done") =>
        /\ "query_count" \in DOMAIN d
        /\ d.query_count = Len(sent)
        /\ d.query_count >= 1

\* C13: the conversion to the wire form, given a nil attribute value,
\* returns a nil wire value and no error.
C13_NilToNil ==
    (call = "ConvertToDynamoAttributeValue" /\ av = Nil /\ cpc # "convert") =>
        (cpc = "converted" /\ wire = Nil /\ cerr = "")

C13_Witness ==
    /\ call = "ConvertToDynamoAttributeValue"
    /\ cpc = "converted"
    /\ av = Nil
    /\ wire = Nil

\* the one populated field of a document, when it has exactly one
OnlyField(v) == CHOOSE f \in DOMAIN v : TRUE

\* C14: a well-formed document with exactly one populated field, decoded
\* and converted, gives without error a wire value whose field of the same
\* name holds exactly the document's value, and no other field.
C14_RoundTrip ==
    (expectedAV # Nil /\ Cardinality(DOMAIN expectedAV) = 1
        /\ cpc \notin {"decode", "convert"}) =>
        /\ cpc = "converted"
        /\ cerr = ""
        /\ DOMAIN wire = {OnlyField(expectedAV)}
        /\ wire[OnlyField(expectedAV)] = expectedAV[OnlyField(expectedAV)]

C14_Witness ==
    /\ cpc = "converted"
    /\ jsonStr = AVText([L |-> << [S |-> << "value1" >>], [N |-> << "12345" >>] >>])
    /\ wire = [L |-> << [S |-> << "value1" >>], [N |-> << "12345" >>] >>]

\* C15: decoding a text that is no JSON document returns a DecodeError and a
\* nil value, never a partly filled attribute value.
C15_InvalidJSONFails ==
    (call = "ConvertJSONToAttributeValue" /\ jsonStr \in InvalidTexts
        /\ cpc # "decode") =>
        (cpc = "failed" /\ cerr = "DecodeError" /\ av = Nil /\ wire = Nil)

C15_Witness ==
    /\ cpc = "failed"
    /\ jsonStr = SubSeq(AVText([S |-> << "example" >>]), 1, 6)
    /\ cerr = "DecodeError"

C18_NoRetry ==
    [][/\ (Len(sent) > Len(pages)) => sent' = sent
       /\ Len(sent') <= Len(pages') + 1]_vars

C18_Witness ==
    /\ variant = "go"
    /\ pc = "failed"
    /\ diag = "StoreError"
    /\ Len(sent) = Len(pages) + 1

\* the loop's exit predicate, without the error case: the cap was reached
\* or the last page had no resume cursor
ExitPredicate == CapReached \/ DOMAIN out.LastEvaluatedKey = {}

\* C19: the invocation ends, and it ends well exactly when the cap was
\* reached or the last page carried no resume cursor.
C19_ExitsOnPredicate == (pc = "done") => ExitPredicate

\* the segments of an identifier: the chunks between the "|" separators
RECURSIVE Split(_)
Split(id) ==
    IF Len(id) = 0 THEN << >>
    ELSE IF Len(id) = 1 THEN << id[1] >>
    ELSE IF id[2] = "|" THEN << id[1] >> \o Split(Tail(Tail(id)))
    ELSE << "malformed" >>

\* C20: the identifier is the '|'-join of the table name, the segments
\* KeyConditionExpression and its text iff the text is not empty, the
\* segments IndexName and the name iff the name is not empty, and the time
\* in nanoseconds; the same parameters at another time give another one.
C20_IdentifierFormat ==
    (pc = "id_set") =>
        LET t == cfg.table_name
            k == cfg.key_condition_expression
            x == cfg.index_name
        IN  /\ Split(d.id) =
                   << t >>
                   \o (IF k # "" THEN << "KeyConditionExpression", k >> ELSE << >>)
                   \o (IF x # "" THEN << "IndexName", x >> ELSE << >>)
                   \o << Itoa(now) >>
            /\ \A u \in 1..MaxNow :
                   u # now =>
                       buildTableQueryDataSourceID(t, x, k, u) # d.id

C20_Witness ==
    /\ pc = "id_set"
    /\ d.id = << "tbl", "|", "KeyConditionExpression", "|", "hashKey = :value",
                 "|", "IndexName", "|", "exampleIndex", "|", "2" >>

\* what an invocation with configuration c returns when it runs alone and
\* the store answers its query with the page p
SoloOutputs(c, p) ==
    [id                 |-> buildTableQueryDataSourceID(
                                Get(c, "table_name"), Get(c, "index_name"),
                                Get(c, "key_condition_expression"), now),
     last_evaluated_key |-> p.LastEvaluatedKey,
     scanned_count      |-> p.ScannedCount,
     consumed_capacity  |-> p.ConsumedCapacity,
     items              |-> [j \in 1..Len(p.Items) |->
                                flattenTableItemAttributes(p.Items[j])],
     item_count         |-> p.Count]

\* an invocation that ended well has, whatever the other one did, the
\* outcome of a run alone: one fetch, answered with a page the store gives
\* for its own request, and the outputs of that page
AsAlone(i) ==
    (i.pc = "done") =>
        LET req == QueryInput_part000(i.cfg)
        IN  /\ i.sent = << req >>
            /\ Len(i.pages) = 1
            /\ \E k \in PageSizes(req, n) : i.pages[1] = Page(req, n, k)
            /\ i.d = SoloOutputs(i.cfg, i.pages[1])

\* C21: two invocations interleaved in any way each return what they return
\* when run alone, and a step of one changes nothing of the other.
C21_Independent ==
    /\ [](AsAlone(Running) /\ AsAlone(other))
    /\ [][(other' # other) => (other' = Running /\ Running' = other)]_vars

C21_Witness ==
    /\ pc = "done"
    /\ other.pc = "done"
    /\ cfg # other.cfg
    /\ Len(d.items) = 1
    /\ Len(other.d.items) = 2

\* C22: with a page-size hint and no output cap, the request carries the
\* hint as its page size, and an invocation that ends well returns every
\* matching item the store holds, not only those of the first page.
C22_LimitDoesNotTruncate ==
    (pc = "done" /\ "limit" \in DOMAIN cfg /\ ~HasCap) =>
        /\ in.Limit = cfg.limit
        /\ Len(d.items) = StoreTotal

\* the caller's exclusive start key, decoded
StartKey == ExpandTableItemAttributes(Get(cfg, "exclusive_start_key"))

C24_CountsCoverWholePage ==
    (pc = "done" /\ HasCap /\ Len(out.Items) > cfg.output_limit) =>
        /\ d.scanned_count = SumOver(pages, "ScannedCount")
        /\ MatchedCount = SumOver(pages, "Count")
        /\ MatchedCount > Len(d.items)

\* C25: when an item of the page fails to flatten, the invocation has
\* failed with that error and none of the outputs items, scanned_count,
\* the matched-item count, last_evaluated_key and consumed_capacity is set.
C25_FlattenErrorSetsNothing ==
    (diag = "SerializationError") =>
        /\ pc = "failed"
        /\ DOMAIN d \cap ResultKeys = {}

C25_Witness ==
    /\ diag = "SerializationError"
    /\ Len(out.Items) = 2
    /\ DOMAIN d = {"id"}

C27_NoSemanticValidation ==
    (call = "ConvertJSONToAttributeValue" /\ expectedAV # Nil
        /\ Cardinality(DOMAIN expectedAV) > 1 /\ cpc # "decode") =>
        /\ cerr = ""
        /\ av = expectedAV
        /\ cpc = "converted" => wire = expectedAV

C27_Witness ==
    /\ cpc = "converted"
    /\ jsonStr = AVText([S |-> << "example" >>, N |-> << "12345" >>])
    /\ cerr = ""
    /\ wire = [S |-> << "example" >>, N |-> << "12345" >>]

\* C28: an invocation whose query call failed has no identifier set, nor any
\* other output.
C28_IdAfterQuery ==
    (pc = "failed" /\ Len(pages) = 0) => DOMAIN d = {}

\* a request without its resume cursor
WithoutCursor(r) == [k \in DOMAIN r \ {"ExclusiveStartKey"} |-> r[k]]

====
